---- MODULE Spec2Model ----
(***************************************************************************)
(* A model of process_bundle.py: the `resources` command, which loads the  *)
(* node inventory and the pod inventory of a diagnostics bundle, sums the  *)
(* containers' CPU and memory requests and limits per pod and folds the    *)
(* pods into their nodes, and the two unit converters it calls.            *)
(*                                                                         *)
(* Quantity strings are sequences of one-character strings.  Numbers are   *)
(* Python numbers: an int, or a float (an IEEE-754 double).  Both are kept *)
(* as exact binary numbers, and every float operation rounds its exact     *)
(* result to 53 significant bits, to nearest, ties to even, as the double  *)
(* arithmetic of the interpreter does.                                     *)
(***************************************************************************)
EXTENDS Integers, Sequences, FiniteSets, TLC

(***************************************************************************)
(* Numbers.  A number is [bits, e]: bits is a sequence of binary digits,   *)
(* least significant first, and the value is bits * 2^e.  The canonical    *)
(* form of zero is Zero; of any other number, the one whose first and last *)
(* digits are 1, so that two numbers are equal iff their records are.      *)
(***************************************************************************)
MantissaBits == 53

Zero == [bits |-> <<>>, e |-> 0]

RECURSIVE NatBits(_)
NatBits(n) == IF n = 0 THEN <<>> ELSE <<n % 2>> \o NatBits(n \div 2)

RECURSIVE Zeros(_)
Zeros(k) == IF k <= 0 THEN <<>> ELSE <<0>> \o Zeros(k - 1)

RECURSIVE StripHigh(_)
StripHigh(b) ==
    IF b = <<>> THEN <<>>
    ELSE IF b[Len(b)] = 1 THEN b
    ELSE StripHigh(SubSeq(b, 1, Len(b) - 1))

RECURSIVE LowZeros(_)
LowZeros(b) ==
    IF b = <<>> \/ b[1] = 1 THEN 0 ELSE 1 + LowZeros(Tail(b))

Norm(b, e) ==
    LET h == StripHigh(b)
        z == LowZeros(h)
    IN  IF h = <<>> THEN Zero
        ELSE [bits |-> SubSeq(h, z + 1, Len(h)), e |-> e + z]

RECURSIVE AddBits(_, _, _)
AddBits(a, b, carry) ==
    IF a = <<>> /\ b = <<>> THEN (IF carry = 1 THEN <<1>> ELSE <<>>)
    ELSE LET x == IF a = <<>> THEN 0 ELSE a[1]
             y == IF b = <<>> THEN 0 ELSE b[1]
             s == x + y + carry
         IN  <<s % 2>> \o AddBits(IF a = <<>> THEN <<>> ELSE Tail(a),
                                  IF b = <<>> THEN <<>> ELSE Tail(b),
                                  s \div 2)

AnyOne(b) == \E i \in 1..Len(b) : b[i] = 1

\* The exact number bits * 2^e rounded to MantissaBits significant bits, to
\* nearest, ties to even (bits has no high zeros).
RoundNearestEven(b, e) ==
    IF Len(b) <= MantissaBits THEN Norm(b, e)
    ELSE LET k     == Len(b) - MantissaBits
             kept  == SubSeq(b, k + 1, Len(b))
             guard == b[k]
             rest  == AnyOne(SubSeq(b, 1, k - 1))
             up    == guard = 1 /\ (rest \/ kept[1] = 1)
         IN  Norm(IF up THEN AddBits(kept, <<1>>, 0) ELSE kept, e + k)

FromInt(n) == Norm(NatBits(n), 0)

\* x + y of two Python numbers.
FAdd(x, y) ==
    LET e  == IF x.e < y.e THEN x.e ELSE y.e
        xb == Zeros(x.e - e) \o x.bits
        yb == Zeros(y.e - e) \o y.bits
    IN  IF x = Zero THEN y
        ELSE IF y = Zero THEN x
        ELSE RoundNearestEven(AddBits(xb, yb, 0), e)

\* a * b of two ints, in binary digits.
RECURSIVE MulBits(_, _)
MulBits(a, b) ==
    IF a = <<>> \/ b = <<>> THEN <<>>
    ELSE AddBits(IF a[1] = 1 THEN b ELSE <<>>,
                 IF Len(a) = 1 THEN <<>> ELSE <<0>> \o MulBits(Tail(a), b), 0)

IntMul(n, c) == MulBits(NatBits(n), NatBits(c))

\* Long division of the int n (in binary digits) by d, from the top digit i
\* down: the quotient's digits in acc, without high zeros, and the remainder.
RECURSIVE IntDivDigits(_, _, _, _, _)
IntDivDigits(n, d, i, r, acc) ==
    IF i = 0 THEN [bits |-> acc, rem |-> r]
    ELSE LET r2  == 2 * r + n[i]
             bit == IF r2 >= d THEN 1 ELSE 0
         IN  IntDivDigits(n, d, i - 1, r2 - bit * d,
                          IF acc = <<>> /\ bit = 0 THEN <<>> ELSE <<bit>> \o acc)

\* Long division continued below the point: the binary digits of r/d appended
\* below acc, until acc has MantissaBits + 2 significant digits or the
\* remainder is 0.
RECURSIVE DivDigits(_, _, _, _)
DivDigits(r, d, acc, nfrac) ==
    IF r = 0 \/ Len(acc) >= MantissaBits + 2
    THEN [bits |-> acc, nfrac |-> nfrac, rem |-> r]
    ELSE LET bit == IF 2 * r >= d THEN 1 ELSE 0
         IN  DivDigits(2 * r - bit * d, d,
                       IF acc = <<>> /\ bit = 0 THEN <<>> ELSE <<bit>> \o acc,
                       nfrac + 1)

\* n / d of two ints (true division), n in binary digits: the correctly
\* rounded double.  A remainder left by the division is a digit below the last.
TrueDiv(n, d) ==
    LET whole == IntDivDigits(n, d, Len(n), 0, <<>>)
        q     == DivDigits(whole.rem, d, whole.bits, 0)
    IN  IF q.rem = 0 THEN RoundNearestEven(q.bits, 0 - q.nfrac)
        ELSE RoundNearestEven(<<1>> \o q.bits, 0 - q.nfrac - 1)


(***************************************************************************)
(* Strings and the two converters.  The result of a call is a record:      *)
(* raised is the exception the call ended with ("none" when it returned)   *)
(* and ret is the set of values it returned: one value, or none when it    *)
(* raised.                                                                 *)
(***************************************************************************)
Returned(v) == [raised |-> "none", ret |-> {v}]

Raised(exc) == [raised |-> exc, ret |-> {}]

Val(r) == CHOOSE v \in r.ret : TRUE

EndsWith(s, suffix) ==
    /\ Len(s) >= Len(suffix)
    /\ SubSeq(s, Len(s) - Len(suffix) + 1, Len(s)) = suffix

\* s[:-k]
DropLast(s, k) == SubSeq(s, 1, Len(s) - k)

DigitChars == <<"0", "1", "2", "3", "4", "5", "6", "7", "8", "9">>

IsDigit(c) == \E i \in 1..Len(DigitChars) : DigitChars[i] = c

DigitValue(c) ==
    IF IsDigit(c) THEN (CHOOSE i \in 1..Len(DigitChars) : DigitChars[i] = c) - 1 ELSE 0

RECURSIVE DecimalValue(_)
DecimalValue(s) ==
    IF s = <<>> THEN 0
    ELSE 10 * DecimalValue(DropLast(s, 1)) + DigitValue(s[Len(s)])

\* int(s), for strings of digits and letters: a string of one or more digits is
\* its decimal value, any other raises ValueError.
ParsesAsInt(s) == s # <<>> /\ \A i \in 1..Len(s) : IsDigit(s[i])

\* A call int(prefix) followed by `value`, which is computed from the int.
IntThen(prefix, value) ==
    IF ParsesAsInt(prefix) THEN Returned(value) ELSE Raised("ValueError")

\* A converter that gives 0 for a string of no known suffix.
UnsupportedUnitsAsZero(memory_string) == Returned(Zero)

\* Line 32.
UnsupportedUnits(memory_string) == Raised("AssertionError")

convert_memory_units(memory_string) ==
    IF EndsWith(memory_string, <<"M", "i">>)
    THEN IntThen(DropLast(memory_string, 2),
                 FromInt(DecimalValue(DropLast(memory_string, 2))))
    ELSE IF EndsWith(memory_string, <<"M">>)
    THEN IntThen(DropLast(memory_string, 1),
                 TrueDiv(IntMul(DecimalValue(DropLast(memory_string, 1)), 1000000),
                         1024 * 1024))
    ELSE IF EndsWith(memory_string, <<"G", "i">>)
    THEN IntThen(DropLast(memory_string, 2),
                 Norm(IntMul(DecimalValue(DropLast(memory_string, 2)), 1024), 0))
    ELSE IF EndsWith(memory_string, <<"G">>)
    THEN IntThen(DropLast(memory_string, 1),
                 TrueDiv(IntMul(DecimalValue(DropLast(memory_string, 1)),
                                1000 * 1000 * 1000),
                         1024 * 1024 * 1024))
    ELSE IF EndsWith(memory_string, <<"K", "i">>)
    THEN IntThen(DropLast(memory_string, 2),
                 TrueDiv(NatBits(DecimalValue(DropLast(memory_string, 2))), 1024))
    ELSE IF EndsWith(memory_string, <<"K">>)
    THEN IntThen(DropLast(memory_string, 1),
                 TrueDiv(IntMul(DecimalValue(DropLast(memory_string, 1)), 1000),
                         1024 * 1024))
    ELSE UnsupportedUnits(memory_string)

convert_cpu_units(cpu_string) ==
    IF EndsWith(cpu_string, <<"m">>)
    THEN IntThen(DropLast(cpu_string, 1),
                 TrueDiv(NatBits(DecimalValue(DropLast(cpu_string, 1))), 1000))
    ELSE IntThen(cpu_string, FromInt(DecimalValue(cpu_string)))


(***************************************************************************)
(* The documents.  A YAML mapping is a record (a function of its keys), so *)
(* that `k in d` is k \in DOMAIN d; a YAML list is a sequence.             *)
(***************************************************************************)
PoolLabel == "konvoy.mesosphere.com/node_pool"

NodeItem(name, labels, cpu, memory) ==
    [metadata |-> [name |-> name, labels |-> labels],
     status   |-> [allocatable |-> [cpu |-> cpu, memory |-> memory]]]

PodItem(namespace, name, spec) ==
    [metadata |-> [namespace |-> namespace, name |-> name], spec |-> spec]

Container(resources) == [resources |-> resources]

SeqsUpTo(S, n) == UNION {[1..k -> S] : k \in 0..n}

(***************************************************************************)
(* The state of one run of `resources`: the local variables of the         *)
(* function, the position of the run (pc and the loop indices), what it    *)
(* has written to standard output, and the exception that ended it.        *)
(* pods_keys is the insertion order of the dict pods_resources, which the  *)
(* fold loop follows.  folded is a history variable: the (pod, node) pairs *)
(* the fold loop has added.                                                *)
(***************************************************************************)
VARIABLES bundle_dir, nodes_data, pods_data, pc, node_i, pod_i, container_i,
          fold_i, nodes_resources, pods_resources, pods_keys,
          unallocated_pods, pod_name_namespaced, node_name,
          cpu_request_total, mem_request_total, cpu_limit_total,
          mem_limit_total, stdout, raised, folded

vars == <<bundle_dir, nodes_data, pods_data, pc, node_i, pod_i, container_i,
          fold_i, nodes_resources, pods_resources, pods_keys,
          unallocated_pods, pod_name_namespaced, node_name,
          cpu_request_total, mem_request_total, cpu_limit_total,
          mem_limit_total, stdout, raised, folded>>

State ==
    [bundle_dir |-> bundle_dir, nodes_data |-> nodes_data,
     pods_data |-> pods_data, pc |-> pc, node_i |-> node_i, pod_i |-> pod_i,
     container_i |-> container_i, fold_i |-> fold_i,
     nodes_resources |-> nodes_resources, pods_resources |-> pods_resources,
     pods_keys |-> pods_keys, unallocated_pods |-> unallocated_pods,
     pod_name_namespaced |-> pod_name_namespaced, node_name |-> node_name,
     cpu_request_total |-> cpu_request_total,
     mem_request_total |-> mem_request_total,
     cpu_limit_total |-> cpu_limit_total, mem_limit_total |-> mem_limit_total,
     stdout |-> stdout, raised |-> raised, folded |-> folded]

Become(s) ==
    /\ bundle_dir' = s.bundle_dir
    /\ nodes_data' = s.nodes_data
    /\ pods_data' = s.pods_data
    /\ pc' = s.pc
    /\ node_i' = s.node_i
    /\ pod_i' = s.pod_i
    /\ container_i' = s.container_i
    /\ fold_i' = s.fold_i
    /\ nodes_resources' = s.nodes_resources
    /\ pods_resources' = s.pods_resources
    /\ pods_keys' = s.pods_keys
    /\ unallocated_pods' = s.unallocated_pods
    /\ pod_name_namespaced' = s.pod_name_namespaced
    /\ node_name' = s.node_name
    /\ cpu_request_total' = s.cpu_request_total
    /\ mem_request_total' = s.mem_request_total
    /\ cpu_limit_total' = s.cpu_limit_total
    /\ mem_limit_total' = s.mem_limit_total
    /\ stdout' = s.stdout
    /\ raised' = s.raised
    /\ folded' = s.folded

Begin(s) ==
    /\ bundle_dir = s.bundle_dir
    /\ nodes_data = s.nodes_data
    /\ pods_data = s.pods_data
    /\ pc = s.pc
    /\ node_i = s.node_i
    /\ pod_i = s.pod_i
    /\ container_i = s.container_i
    /\ fold_i = s.fold_i
    /\ nodes_resources = s.nodes_resources
    /\ pods_resources = s.pods_resources
    /\ pods_keys = s.pods_keys
    /\ unallocated_pods = s.unallocated_pods
    /\ pod_name_namespaced = s.pod_name_namespaced
    /\ node_name = s.node_name
    /\ cpu_request_total = s.cpu_request_total
    /\ mem_request_total = s.mem_request_total
    /\ cpu_limit_total = s.cpu_limit_total
    /\ mem_limit_total = s.mem_limit_total
    /\ stdout = s.stdout
    /\ raised = s.raised
    /\ folded = s.folded

\* What click.echo and pprint.pprint write: a line of text, or a value.
Echo(text) == [text |-> text, value |-> <<>>]

PPrint(v) == [text |-> "", value |-> <<v>>]

\* The run as lines 86-90 leave it: the banner printed, the node inventory
\* loaded, nodes_resources empty.
Start(dir, nodes) ==
    [bundle_dir |-> dir, nodes_data |-> nodes, pods_data |-> <<>>,
     pc |-> "nodes", node_i |-> 1, pod_i |-> 1, container_i |-> 1,
     fold_i |-> 1, nodes_resources |-> <<>>, pods_resources |-> <<>>,
     pods_keys |-> <<>>, unallocated_pods |-> <<>>,
     pod_name_namespaced |-> "", node_name |-> "",
     cpu_request_total |-> Zero, mem_request_total |-> Zero,
     cpu_limit_total |-> Zero, mem_limit_total |-> Zero,
     stdout |-> <<Echo("Analysing the resource usage of the given cluster")>>,
     raised |-> "none", folded |-> <<>>]

\* An uncaught exception ends the run.
Abort(s, exc) == [s EXCEPT !.pc = "aborted", !.raised = exc]

\* d[k] = v
DictSet(d, k, v) == [x \in DOMAIN d \cup {k} |-> IF x = k THEN v ELSE d[x]]

\* The keys of a dict after d[k] = v: a new key goes last.
KeysSet(keys, k) ==
    IF \E i \in 1..Len(keys) : keys[i] = k THEN keys ELSE Append(keys, k)

ResourceNames == <<"cpu_limit", "memory_limit", "cpu_request", "memory_request">>

(***************************************************************************)
(* Lines 91-104: one iteration of the loop over the node inventory.        *)
(***************************************************************************)
NodeEntry(node_data) ==
    [cpu_limit |-> Zero, memory_limit |-> Zero, cpu_request |-> Zero,
     memory_request |-> Zero, pool |-> node_data.metadata.labels[PoolLabel]]

NodeIsNew(s, name) == name \notin DOMAIN s.nodes_resources

LoadNodeStep(s) ==
    LET node_data == s.nodes_data[s.node_i]
        name      == node_data.metadata.name
        cpu       == convert_cpu_units(node_data.status.allocatable.cpu)
        memory    == convert_memory_units(node_data.status.allocatable.memory)
        s1 == [s EXCEPT !.node_name = name,
                        !.nodes_resources = DictSet(@, name, NodeEntry(node_data))]
        s2 == [s1 EXCEPT !.nodes_resources[name] =
                             DictSet(@, "cpu_allocatable", Val(cpu))]
        s3 == [s2 EXCEPT !.nodes_resources[name] =
                             DictSet(@, "memory_allocatable", Val(memory))]
    IN  IF ~NodeIsNew(s, name)
        THEN Abort([s EXCEPT !.node_name = name], "AssertionError")
        ELSE IF PoolLabel \notin DOMAIN node_data.metadata.labels
        THEN Abort([s EXCEPT !.node_name = name], "KeyError")
        ELSE IF cpu.raised # "none" THEN Abort(s1, cpu.raised)
        ELSE IF memory.raised # "none" THEN Abort(s2, memory.raised)
        ELSE [s3 EXCEPT !.node_i = @ + 1]

(***************************************************************************)
(* Lines 106-109: after the node loop, the pod inventory is loaded.        *)
(***************************************************************************)
LoadPodsStep(s, pods) ==
    [s EXCEPT !.pods_resources = <<>>, !.pods_keys = <<>>,
              !.unallocated_pods = <<>>, !.pods_data = pods, !.pc = "pods"]

(***************************************************************************)
(* Lines 110-124: a pod's key, the duplicate check, its assignment, and    *)
(* its four totals set to 0.                                               *)
(***************************************************************************)
NamespacedName(pod_data) ==
    pod_data.metadata.namespace \o "/" \o pod_data.metadata.name

PodIsNewUnchecked(s, key) == TRUE

PodIsNew(s, key) == key \notin DOMAIN s.pods_resources

BeginPodStep(s) ==
    LET pod_data == s.pods_data[s.pod_i]
        key      == NamespacedName(pod_data)
        named    == [s EXCEPT !.pod_name_namespaced = key]
        assigned ==
            IF "nodeName" \in DOMAIN pod_data.spec
            THEN [named EXCEPT !.node_name = pod_data.spec.nodeName]
            ELSE [named EXCEPT !.node_name = "unallocated",
                               !.unallocated_pods = Append(@, key)]
    IN  IF ~PodIsNew(s, key) THEN Abort(named, "AssertionError")
        ELSE [assigned EXCEPT !.cpu_request_total = Zero,
                              !.mem_request_total = Zero,
                              !.cpu_limit_total = Zero,
                              !.mem_limit_total = Zero,
                              !.container_i = 1,
                              !.pc = "containers"]

(***************************************************************************)
(* Lines 125-144: one iteration of the loop over a pod's containers.       *)
(***************************************************************************)
\* The converter the container loop applies to the sub-field `key`.
Converted(key, quantity) ==
    IF key = "memory" THEN convert_memory_units(quantity)
    ELSE convert_cpu_units(quantity)

\* `if key in block: total += convert(block[key])`, unless the run has ended.
Accumulate(s, block, key, total) ==
    IF s.pc = "aborted" \/ key \notin DOMAIN block THEN s
    ELSE LET r == Converted(key, block[key])
         IN  IF r.raised # "none" THEN Abort(s, r.raised)
             ELSE [s EXCEPT ![total] = FAdd(@, Val(r))]

\* Lines 126-132.
AddLimits(s, resources) ==
    IF "limits" \in DOMAIN resources
    THEN Accumulate(
             Accumulate(s, resources.limits, "memory", "mem_limit_total"),
             resources.limits, "cpu", "cpu_limit_total")
    ELSE s

\* Lines 141-143.
AddDefault(s) ==
    [s EXCEPT !.cpu_limit_total = FAdd(@, FromInt(1)),
              !.mem_limit_total = FAdd(@, FromInt(512))]

AddRequestsIfNotEmpty(s, resources) ==
    IF s.pc = "aborted" THEN s
    ELSE IF "requests" \in DOMAIN resources /\ DOMAIN resources.requests # {}
    THEN Accumulate(
             Accumulate(s, resources.requests, "memory", "mem_request_total"),
             resources.requests, "cpu", "cpu_request_total")
    ELSE AddDefault(s)

\* Lines 133-144.
AddRequests(s, resources) ==
    IF s.pc = "aborted" THEN s
    ELSE IF "requests" \in DOMAIN resources
    THEN Accumulate(
             Accumulate(s, resources.requests, "memory", "mem_request_total"),
             resources.requests, "cpu", "cpu_request_total")
    ELSE AddDefault(s)

ContainersOf(s) == s.pods_data[s.pod_i].spec.containers

ContainerStep(s) ==
    LET container == ContainersOf(s)[s.container_i]
        after     == AddRequests(AddLimits(s, container.resources),
                                 container.resources)
    IN  IF after.pc = "aborted" THEN after
        ELSE [after EXCEPT !.container_i = @ + 1]

(***************************************************************************)
(* Lines 146-152: the pod's record.                                        *)
(***************************************************************************)
PodRecord(s) ==
    [cpu_limit |-> s.cpu_limit_total, memory_limit |-> s.mem_limit_total,
     cpu_request |-> s.cpu_request_total,
     memory_request |-> s.mem_request_total, node_name |-> s.node_name]

RecordPodStep(s) ==
    [s EXCEPT !.pods_resources = DictSet(@, s.pod_name_namespaced, PodRecord(s)),
              !.pods_keys = KeysSet(@, s.pod_name_namespaced),
              !.pod_i = @ + 1,
              !.pc = "pods"]

(***************************************************************************)
(* Lines 154-158: the report of the unallocated pods.                      *)
(***************************************************************************)
UnallocatedReport(s) ==
    LET PodLines(pod) == <<Echo(" - " \o pod), PPrint(s.pods_resources[pod])>>
        Lines[i \in 0..Len(s.unallocated_pods)] ==
            IF i = 0 THEN <<Echo("Unallocated pods found:")>>
            ELSE Lines[i - 1] \o PodLines(s.unallocated_pods[i])
    IN  Lines[Len(s.unallocated_pods)]

ReportStep(s) ==
    [s EXCEPT !.stdout = IF s.unallocated_pods # <<>>
                         THEN @ \o UnallocatedReport(s) ELSE @,
              !.fold_i = 1,
              !.pc = "fold"]

(***************************************************************************)
(* Lines 160-166: one iteration of the fold of the pods into the nodes.    *)
(***************************************************************************)
IsSkippedNever(pods_node) == FALSE

IsSkipped(pods_node) == pods_node = "unallocated"

AddPodAssigning(node, pod) ==
    [f \in DOMAIN node |->
        IF \E i \in 1..Len(ResourceNames) : ResourceNames[i] = f
        THEN pod[f] ELSE node[f]]

AddPod(node, pod) ==
    [f \in DOMAIN node |->
        IF \E i \in 1..Len(ResourceNames) : ResourceNames[i] = f
        THEN FAdd(node[f], pod[f]) ELSE node[f]]

FoldStep(s) ==
    LET pod       == s.pods_keys[s.fold_i]
        pods_node == s.pods_resources[pod].node_name
    IN  IF IsSkipped(pods_node) THEN [s EXCEPT !.fold_i = @ + 1]
        ELSE IF pods_node \notin DOMAIN s.nodes_resources
        THEN Abort(s, "AssertionError")
        ELSE [s EXCEPT !.nodes_resources[pods_node] =
                           AddPod(@, s.pods_resources[pod]),
                       !.folded = Append(@, <<pod, pods_node>>),
                       !.fold_i = @ + 1]

(***************************************************************************)
(* Lines 168-169: the node summary.                                        *)
(***************************************************************************)
SummaryStep(s) ==
    [s EXCEPT !.stdout = @ \o <<Echo("Node resources:"), PPrint(s.nodes_resources)>>,
              !.pc = "done"]


(***************************************************************************)
(* The bundles.  bundle_dir names a family of bundles; NodesYaml and       *)
(* PodsYaml are the documents its nodes.yaml and pods.yaml may hold.       *)
(***************************************************************************)
MaxNodes == 2

MaxPods == 3

MaxContainers == 2

Pool(name) == (PoolLabel :> name)

NodeA == NodeItem("node-a", Pool("default"), <<"4">>, <<"8", "G", "i">>)

NodeASpare == NodeItem("node-a", Pool("spare"), <<"8">>, <<"1", "6", "G", "i">>)

NodeUnallocated ==
    NodeItem("unallocated", Pool("default"), <<"2">>, <<"4", "0", "9", "6", "M", "i">>)

NodeNoPool == NodeItem("node-b", <<>>, <<"4">>, <<"8", "G", "i">>)

ClusterNodes == {NodeA, NodeASpare, NodeUnallocated, NodeNoPool}

\* The pod of the end-to-end scenario: a container requesting 500m / 256Mi
\* without limits, and a container without a requests block.
PodApp ==
    PodItem("ns", "app",
        [nodeName |-> "node-a",
         containers |-> <<
            Container([requests |-> [cpu |-> <<"5", "0", "0", "m">>,
                                     memory |-> <<"2", "5", "6", "M", "i">>]]),
            Container(<<>>) >>])

\* A second entry with the key of PodApp.
PodAppAgain ==
    PodItem("ns", "app",
        [nodeName |-> "node-a",
         containers |-> <<
            Container([limits |-> [cpu |-> <<"2">>, memory |-> <<"2", "G", "i">>],
                       requests |-> [cpu |-> <<"1">>, memory |-> <<"1", "G", "i">>]]) >>])

\* A pod without a nodeName.
PodPending ==
    PodItem("ns", "pending",
        [containers |-> <<
            Container([limits |-> [cpu |-> <<"1">>, memory |-> <<"1", "2", "8", "M", "i">>],
                       requests |-> [cpu |-> <<"1", "0", "0", "m">>,
                                     memory |-> <<"6", "4", "M", "i">>]]) >>])

\* A pod on a node that no inventory of the family holds.
PodGhost ==
    PodItem("ns", "ghost",
        [nodeName |-> "node-x",
         containers |-> <<
            Container([requests |-> [cpu |-> <<"2", "0", "0", "m">>]]) >>])

\* A pod whose nodeName is the string "unallocated".
PodSentinel ==
    PodItem("ns", "sentinel",
        [nodeName |-> "unallocated",
         containers |-> <<
            Container([requests |-> [cpu |-> <<"3", "0", "0", "m">>,
                                     memory |-> <<"1", "G">>]]) >>])

\* A pod whose container has limits and no requests block.
PodLimitsOnly ==
    PodItem("ns", "limited",
        [nodeName |-> "node-a",
         containers |-> <<
            Container([limits |-> [cpu |-> <<"2">>, memory |-> <<"1", "G">>]]) >>])

\* A pod with a quantity of an unknown unit.
PodMalformed ==
    PodItem("ns", "odd",
        [nodeName |-> "node-a",
         containers |-> <<
            Container([limits |-> [memory |-> <<"5", "Q">>]]) >>])

ClusterPods ==
    {PodApp, PodAppAgain, PodPending, PodGhost, PodSentinel, PodLimitsOnly,
     PodMalformed}

\* The family "shapes": one pod on node-a, its containers of every shape of
\* resources: limits absent, or with cpu, memory or both; requests absent,
\* empty, or with cpu, memory or both.
LimitsBlocks ==
    {[cpu |-> <<"2">>], [memory |-> <<"1", "G">>],
     [cpu |-> <<"2">>, memory |-> <<"1", "G">>]}

RequestsBlocks ==
    {<<>>, [cpu |-> <<"5", "0", "0", "m">>],
     [memory |-> <<"2", "5", "6", "M", "i">>],
     [cpu |-> <<"5", "0", "0", "m">>, memory |-> <<"2", "5", "6", "M", "i">>]}

ResourceShapes ==
    {<<>>}
    \cup {[limits |-> l] : l \in LimitsBlocks}
    \cup {[requests |-> r] : r \in RequestsBlocks}
    \cup {[limits |-> l, requests |-> r] : l \in LimitsBlocks, r \in RequestsBlocks}

ShapePods ==
    {<<PodItem("ns", "app", [nodeName |-> "node-a", containers |-> cs])>> :
        cs \in SeqsUpTo({Container(r) : r \in ResourceShapes}, MaxContainers)}

\* The family "orderings": pods of node-a with millicore and decimal-unit
\* quantities, pods with whole quantities only, a repeated key, an unknown unit.
PodTenth ==
    PodItem("ns", "tenth",
        [nodeName |-> "node-a",
         containers |-> <<
            Container([requests |-> [cpu |-> <<"1", "0", "0", "m">>,
                                     memory |-> <<"1", "K">>]]) >>])

PodFifth ==
    PodItem("ns", "fifth",
        [nodeName |-> "node-a",
         containers |-> <<
            Container([requests |-> [cpu |-> <<"2", "0", "0", "m">>,
                                     memory |-> <<"6", "4", "M", "i">>]]) >>])

PodWhole ==
    PodItem("ns", "whole",
        [nodeName |-> "node-a",
         containers |-> <<
            Container([limits |-> [cpu |-> <<"2">>, memory |-> <<"1", "G", "i">>],
                       requests |-> [cpu |-> <<"1">>,
                                     memory |-> <<"1", "2", "8", "M", "i">>]]),
            Container([limits |-> [cpu |-> <<"1">>]]) >>])

OrderPods ==
    {PodTenth, PodFifth, PodApp, PodWhole, PodAppAgain, PodMalformed}

\* The family "convert": one node, its allocatable memory any of these strings.
MemoryPrefixes ==
    {<<>>, <<"0">>, <<"1">>, <<"7">>, <<"1", "0", "2", "4">>,
     <<"1", "0", "0", "0">>, <<"x">>, <<"1", ".", "5">>}

KnownSuffixes ==
    {<<"K", "i">>, <<"K">>, <<"M", "i">>, <<"M">>, <<"G", "i">>, <<"G">>}

OtherSuffixes ==
    {<<>>, <<"Q">>, <<"m">>, <<"k">>, <<"T", "i">>, <<"T">>, <<"i">>,
     <<"B">>, <<"K", "i", "B">>, <<"M", "b">>, <<"g">>, <<"E">>}

MemoryStrings ==
    {p \o u : p \in MemoryPrefixes, u \in KnownSuffixes \cup OtherSuffixes}

NodesYaml(dir) ==
    CASE dir = "cluster"   -> SeqsUpTo(ClusterNodes, MaxNodes)
      [] dir = "shapes"    -> {<<NodeA>>}
      [] dir = "orderings" -> {<<NodeA>>}
      [] dir = "convert"   ->
            {<<NodeItem("node-a", Pool("default"), <<"4">>, m)>> : m \in MemoryStrings}

PodsYaml(dir) ==
    CASE dir = "cluster"   -> SeqsUpTo(ClusterPods, MaxPods)
      [] dir = "shapes"    -> ShapePods
      [] dir = "orderings" -> SeqsUpTo(OrderPods, MaxPods)
      [] dir = "convert"   -> {<<PodApp>>}

(***************************************************************************)
(* The actions: each step of the run, where the run stands at it.          *)
(***************************************************************************)
AtLoadNode(s)  == s.pc = "nodes" /\ s.node_i <= Len(s.nodes_data)
AtLoadPods(s)  == s.pc = "nodes" /\ s.node_i > Len(s.nodes_data)
AtBeginPod(s)  == s.pc = "pods" /\ s.pod_i <= Len(s.pods_data)
AtContainer(s) == s.pc = "containers" /\ s.container_i <= Len(ContainersOf(s))
AtRecordPod(s) == s.pc = "containers" /\ s.container_i > Len(ContainersOf(s))
AtReport(s)    == s.pc = "pods" /\ s.pod_i > Len(s.pods_data)
AtFold(s)      == s.pc = "fold" /\ s.fold_i <= Len(s.pods_keys)
AtSummary(s)   == s.pc = "fold" /\ s.fold_i > Len(s.pods_keys)

LoadNode == AtLoadNode(State) /\ Become(LoadNodeStep(State))

LoadPods ==
    /\ AtLoadPods(State)
    /\ \E pods \in PodsYaml(bundle_dir) : Become(LoadPodsStep(State, pods))

BeginPod == AtBeginPod(State) /\ Become(BeginPodStep(State))

ContainerLoop == AtContainer(State) /\ Become(ContainerStep(State))

RecordPod == AtRecordPod(State) /\ Become(RecordPodStep(State))

Report == AtReport(State) /\ Become(ReportStep(State))

Fold == AtFold(State) /\ Become(FoldStep(State))

Summary == AtSummary(State) /\ Become(SummaryStep(State))

Next ==
    \/ LoadNode
    \/ LoadPods
    \/ BeginPod
    \/ ContainerLoop
    \/ RecordPod
    \/ Report
    \/ Fold
    \/ Summary

InitIn(dir) == \E nodes \in NodesYaml(dir) : Begin(Start(dir, nodes))

Init == InitIn("cluster")

Spec == Init /\ [][Next]_vars

InitShapes == InitIn("shapes")

SpecShapes == InitShapes /\ [][Next]_vars

InitOrder == InitIn("orderings")

SpecOrder == InitOrder /\ [][Next]_vars

InitConvert == InitIn("convert")

SpecConvert == InitConvert /\ [][Next]_vars

(***************************************************************************)
(* A whole run from state s, the pod inventory being `pods`: the steps of  *)
(* the actions, taken until the run is done or aborted.                    *)
(***************************************************************************)
Ended(s) == s.pc \in {"done", "aborted"}

StepOf(s, pods) ==
    CASE AtLoadNode(s)  -> LoadNodeStep(s)
      [] AtLoadPods(s)  -> LoadPodsStep(s, pods)
      [] AtBeginPod(s)  -> BeginPodStep(s)
      [] AtContainer(s) -> ContainerStep(s)
      [] AtRecordPod(s) -> RecordPodStep(s)
      [] AtReport(s)    -> ReportStep(s)
      [] AtFold(s)      -> FoldStep(s)
      [] AtSummary(s)   -> SummaryStep(s)

RECURSIVE RunToEnd(_, _)
RunToEnd(s, pods) == IF Ended(s) THEN s ELSE RunToEnd(StepOf(s, pods), pods)


(***************************************************************************)
(* The properties.                                                         *)
(***************************************************************************)
Done == pc = "done"

Aborted == pc = "aborted"

HasNodeName(pod_data) == "nodeName" \in DOMAIN pod_data.spec

KeyAt(i) == NamespacedName(pods_data[i])

NameAt(i) == nodes_data[i].metadata.name

Count(seq, x) == Cardinality({i \in 1..Len(seq) : seq[i] = x})

FoldCount(key) == Cardinality({j \in 1..Len(folded) : folded[j][1] = key})

CurrentContainer == ContainersOf(State)[container_i]

Half == Norm(<<1>>, 0 - 1)

\* x + y without rounding.
ExactAdd(x, y) ==
    LET e == IF x.e < y.e THEN x.e ELSE y.e
    IN  Norm(AddBits(Zeros(x.e - e) \o x.bits, Zeros(y.e - e) \o y.bits, 0), e)

\* C1: in the container loop, a container without a requests block adds exactly
\* 1 to cpu_limit_total and 512 to mem_limit_total and nothing to the request
\* totals, whatever its limits block.
C1_DefaultOnly ==
    [][(AtContainer(State) /\ "requests" \notin DOMAIN CurrentContainer.resources
            /\ pc' # "aborted")
        => /\ cpu_limit_total' = FAdd(cpu_limit_total, FromInt(1))
           /\ mem_limit_total' = FAdd(mem_limit_total, FromInt(512))
           /\ cpu_request_total' = cpu_request_total
           /\ mem_request_total' = mem_request_total]_vars

RECURSIVE NodeSum(_, _)
NodeSum(names, f) ==
    IF names = {} THEN Zero
    ELSE LET n == CHOOSE n \in names : TRUE
         IN  ExactAdd(nodes_resources[n][f], NodeSum(names \ {n}, f))

RECURSIVE AssignedPodSum(_, _)
AssignedPodSum(i, f) ==
    IF i = 0 THEN Zero
    ELSE IF HasNodeName(pods_data[i])
    THEN ExactAdd(pods_resources[KeyAt(i)][f], AssignedPodSum(i - 1, f))
    ELSE AssignedPodSum(i - 1, f)

\* C2: in a completed run, for each of the four resources, the sum of the
\* nodes' accumulators equals the sum of the totals of the pods that have a
\* node assignment.
C2_Conservation ==
    Done => \A k \in 1..Len(ResourceNames) :
                NodeSum(DOMAIN nodes_resources, ResourceNames[k])
                    = AssignedPodSum(Len(pods_data), ResourceNames[k])

\* The pods the pod loop has begun: their key checked and their assignment made.
Begun(i) == i < pod_i \/ (i = pod_i /\ pc = "containers")

C3_Listed ==
    \A i \in 1..Len(pods_data) :
        (Begun(i) /\ ~HasNodeName(pods_data[i]))
            => /\ Count(unallocated_pods, KeyAt(i)) = 1
               /\ FoldCount(KeyAt(i)) = 0

C3_FoldLeavesNodes ==
    (AtFold(State) /\ \E i \in 1..Len(pods_data) :
                          /\ KeyAt(i) = pods_keys[fold_i]
                          /\ ~HasNodeName(pods_data[i]))
        => nodes_resources' = nodes_resources

\* C3: a pod without a nodeName is in the unallocated list exactly once, and
\* the fold step of such a pod leaves every node's accumulators as they were.
C3_UnallocatedExcluded == [](C3_Listed) /\ [][C3_FoldLeavesNodes]_vars

\* C3 witness: a completed run with a pod in the unallocated list, a pod folded
\* into a node, and a node named "unallocated" in the inventory.
C3_Witness ==
    /\ Done
    /\ unallocated_pods # <<>>
    /\ folded # <<>>
    /\ "unallocated" \in DOMAIN nodes_resources

\* C4: in a completed run the node of every pod that has a nodeName is a key
\* of the node mapping.
C4_AssignedNodeKnown ==
    Done => \A i \in 1..Len(pods_data) :
                HasNodeName(pods_data[i])
                    => pods_data[i].spec.nodeName \in DOMAIN nodes_resources

AssignmentOf(pod_data) ==
    IF HasNodeName(pod_data) THEN pod_data.spec.nodeName ELSE "unallocated"

C5_Recorded ==
    /\ \A i, j \in 1..(node_i - 1) : i < j => NameAt(i) # NameAt(j)
    /\ \A i, j \in 1..(pod_i - 1) : i < j => KeyAt(i) # KeyAt(j)
    /\ pc \notin {"nodes", "aborted"} => node_i = Len(nodes_data) + 1
    /\ pc \in {"fold", "done"} => pod_i = Len(pods_data) + 1
    /\ \A i \in 1..(node_i - 1) :
          /\ nodes_resources[NameAt(i)].pool = nodes_data[i].metadata.labels[PoolLabel]
          /\ nodes_resources[NameAt(i)].cpu_allocatable
                = Val(convert_cpu_units(nodes_data[i].status.allocatable.cpu))
          /\ nodes_resources[NameAt(i)].memory_allocatable
                = Val(convert_memory_units(nodes_data[i].status.allocatable.memory))
    /\ \A i \in 1..(pod_i - 1) :
          pods_resources[KeyAt(i)].node_name = AssignmentOf(pods_data[i])

C5_Kept ==
    /\ \A n \in DOMAIN nodes_resources :
          /\ n \in DOMAIN nodes_resources'
          /\ \A f \in DOMAIN nodes_resources[n] \ {"cpu_limit", "memory_limit",
                                                   "cpu_request", "memory_request"} :
                /\ f \in DOMAIN nodes_resources'[n]
                /\ nodes_resources'[n][f] = nodes_resources[n][f]
    /\ \A k \in DOMAIN pods_resources :
          /\ k \in DOMAIN pods_resources'
          /\ pods_resources'[k] = pods_resources[k]
    /\ (AtLoadNode(State) /\ \E i \in 1..(node_i - 1) : NameAt(i) = NameAt(node_i))
          => /\ pc' = "aborted" /\ raised' = "AssertionError"
             /\ nodes_resources' = nodes_resources
    /\ (AtBeginPod(State) /\ \E i \in 1..(pod_i - 1) : KeyAt(i) = KeyAt(pod_i))
          => /\ pc' = "aborted" /\ raised' = "AssertionError"
             /\ pods_resources' = pods_resources
             /\ pods_keys' = pods_keys

\* C5: a repeated node name or pod key aborts the run at the second occurrence
\* before it is recorded: the recorded names and keys are distinct, each entry
\* holds what its first occurrence gave it, and no step changes a recorded pod
\* or a node's pool and allocatable values.
C5_NoOverwrite == [](C5_Recorded) /\ [][C5_Kept]_vars

\* C5 witness: the run aborted at a second entry of a recorded pod key.
C5_Witness ==
    /\ Aborted
    /\ raised = "AssertionError"
    /\ pod_i = 2
    /\ pods_data[1] = PodApp
    /\ pods_data[2] = PodAppAgain
    /\ pods_resources["ns/app"].cpu_request = Half

ResultLines == {"Unallocated pods found:", "Node resources:"}

\* C6: a run that aborts has written no part of its result: neither the report
\* of the unallocated pods nor the node summary.
C6_NoPartialResult ==
    Aborted => \A i \in 1..Len(stdout) : stdout[i].text \notin ResultLines

RECURSIVE UnitOf(_)
UnitOf(str) ==
    IF str = <<>> \/ IsDigit(str[Len(str)]) THEN <<>>
    ELSE UnitOf(DropLast(str, 1)) \o <<str[Len(str)]>>

NumberOf(str) == DropLast(str, Len(UnitOf(str)))

WellFormed(str) == UnitOf(str) \in KnownSuffixes /\ ParsesAsInt(NumberOf(str))

\* The suffix table: n units as MiB, an exact binary number.
MiBOf(n, unit) ==
    CASE unit = <<"K", "i">> -> Norm(NatBits(n), 0 - 10)
      [] unit = <<"K">>      -> Norm(IntMul(n, 1000), 0 - 20)
      [] unit = <<"M", "i">> -> Norm(NatBits(n), 0)
      [] unit = <<"M">>      -> Norm(IntMul(n, 1000000), 0 - 20)
      [] unit = <<"G", "i">> -> Norm(NatBits(n), 10)
      [] unit = <<"G">>      -> Norm(IntMul(n, 1000 * 1000 * 1000), 0 - 30)

AllocatableString == nodes_data[1].status.allocatable.memory

\* C7: the node's allocatable memory, converted by convert_memory_units: a
\* string <int><suffix> with one of the six suffixes gives the MiB of the suffix
\* table (1024 for "1024Mi" and for "1Gi"); a string with any other suffix ends
\* the run with an exception and gives no number.
C7_ConvertMemory ==
    LET str == AllocatableString
    IN  /\ WellFormed(str)
            => /\ raised = "none"
               /\ node_i > 1 =>
                    nodes_resources["node-a"].memory_allocatable
                        = MiBOf(DecimalValue(NumberOf(str)), UnitOf(str))
        /\ (node_i > 1 /\ str \in {<<"1", "0", "2", "4", "M", "i">>, <<"1", "G", "i">>})
            => nodes_resources["node-a"].memory_allocatable = FromInt(1024)
        /\ UnitOf(str) \notin KnownSuffixes
            => /\ node_i = 1
               /\ pc \in {"nodes", "aborted"}
               /\ Aborted => /\ raised # "none"
                             /\ "memory_allocatable" \notin DOMAIN nodes_resources["node-a"]

\* C7 witness: the run aborted on the allocatable memory "7Q".
C7_Witness ==
    /\ Aborted
    /\ raised = "AssertionError"
    /\ AllocatableString = <<"7", "Q">>

\* The converted value of resources[block][key], 0 when it is absent.
Given(resources, block, key) ==
    IF block \in DOMAIN resources /\ key \in DOMAIN resources[block]
    THEN Val(Converted(key, resources[block][key])) ELSE Zero

C8_Contribution ==
    (AtContainer(State) /\ "requests" \in DOMAIN CurrentContainer.resources)
        => LET r == CurrentContainer.resources
           IN  /\ pc' = "containers"
               /\ cpu_limit_total' =
                    FAdd(cpu_limit_total, Given(r, "limits", "cpu"))
               /\ mem_limit_total' =
                    FAdd(mem_limit_total, Given(r, "limits", "memory"))
               /\ cpu_request_total' =
                    FAdd(cpu_request_total, Given(r, "requests", "cpu"))
               /\ mem_request_total' =
                    FAdd(mem_request_total,
                         Given(r, "requests", "memory"))

C8_Scenario ==
    (Done /\ nodes_data = <<NodeA>> /\ pods_data = <<PodApp>>)
        => /\ nodes_resources["node-a"].cpu_request = Half
           /\ nodes_resources["node-a"].memory_request = FromInt(256)
           /\ nodes_resources["node-a"].cpu_limit = FromInt(1)
           /\ nodes_resources["node-a"].memory_limit = FromInt(512)

\* C8: a container with a requests block adds to each of the pod's four totals
\* the converted value of the sub-field when it is present and nothing when it
\* is absent; and the scenario of node-a and the pod ns/app ends with
\* cpu_request 0.5, memory_request 256, cpu_limit 1, memory_limit 512.
C8_PresentFieldsOnly == [][C8_Contribution]_vars /\ [](C8_Scenario)

\* C8 witness: the scenario has completed.
C8_Witness ==
    /\ Done
    /\ pods_data = <<PodApp>>
    /\ nodes_resources["node-a"].cpu_request = Half
    /\ nodes_resources["node-a"].memory_limit = FromInt(512)

\* C10: in a completed run every pod is either in the unallocated list, once,
\* and folded into no node, or in no such list and folded once, into a node of
\* the inventory.
C10_EachPodOnce ==
    Done => \A i \in 1..Len(pods_data) :
                \/ /\ Count(unallocated_pods, KeyAt(i)) = 1
                   /\ FoldCount(KeyAt(i)) = 0
                \/ /\ Count(unallocated_pods, KeyAt(i)) = 0
                   /\ FoldCount(KeyAt(i)) = 1
                   /\ \A j \in 1..Len(folded) :
                         folded[j][1] = KeyAt(i)
                            => folded[j][2] \in {NameAt(n) : n \in 1..Len(nodes_data)}


\* Every ordering of a sequence.
Orders(seq) ==
    IF seq = <<>> THEN {<<>>}
    ELSE {[i \in 1..Len(seq) |-> seq[p[i]]] : p \in Permutations(1..Len(seq))}

ContainerOrders(pod_data) ==
    {[pod_data EXCEPT !.spec.containers = cs] : cs \in Orders(pod_data.spec.containers)}

\* Every ordering of the pod entries and of the containers inside each.
Reorderings(pods) ==
    UNION {{d \in [1..Len(q) -> UNION {ContainerOrders(q[i]) : i \in 1..Len(q)}] :
                \A i \in 1..Len(q) : d[i] \in ContainerOrders(q[i])} :
           q \in Orders(pods)}

\* The run of the same bundle with its pod inventory in the order `pods`.
Rerun(pods) == RunToEnd(Start(bundle_dir, nodes_data), pods)

SameAccumulators(a, b) ==
    /\ DOMAIN a = DOMAIN b
    /\ \A n \in DOMAIN a : \A k \in 1..Len(ResourceNames) :
          a[n][ResourceNames[k]] = b[n][ResourceNames[k]]

\* C9 as stated: a run and the run of any reordering of its pod inventory both
\* abort or both complete, and when they complete every node has the same four
\* accumulators in both.
C9_OrderIndependent ==
    Ended(State) =>
        \A d \in Reorderings(pods_data) :
            /\ Rerun(d).pc = pc
            /\ Done => SameAccumulators(nodes_resources, Rerun(d).nodes_resources)

\* Quantities that convert to an int: CPU in whole cores, memory in Mi or Gi.
WholeBlock(block) ==
    /\ "cpu" \in DOMAIN block => ParsesAsInt(block.cpu)
    /\ "memory" \in DOMAIN block =>
          UnitOf(block.memory) \in {<<"M", "i">>, <<"G", "i">>}

WholeQuantities(pods) ==
    \A i \in 1..Len(pods) : \A c \in 1..Len(pods[i].spec.containers) :
        LET r == pods[i].spec.containers[c].resources
        IN  \A b \in DOMAIN r : WholeBlock(r[b])

\* C9, amended: a run and the run of any reordering of its pod inventory both
\* abort or both complete; when they complete and every quantity of the pods is
\* a whole number of cores, Mi or Gi, every node has the same four accumulators
\* in both.
C9_OrderIndependentWhole ==
    Ended(State) =>
        \A d \in Reorderings(pods_data) :
            /\ Rerun(d).pc = pc
            /\ (Done /\ WholeQuantities(pods_data))
                  => SameAccumulators(nodes_resources, Rerun(d).nodes_resources)

\* C9 witness: a completed run of two or more pods of whole quantities, folded
\* into node-a, whose inventory has another ordering.
C9_Witness ==
    /\ Done
    /\ Len(pods_data) >= 2
    /\ WholeQuantities(pods_data)
    /\ Len(folded) >= 2
    /\ \E d \in Reorderings(pods_data) : d # pods_data
    /\ nodes_resources["node-a"].cpu_limit # Zero

====
